---- MODULE Spec2Model ----
(***************************************************************************)
(* Model of train/torch/iteration.py: the single-pass trainer              *)
(* (train_single_fold), the checkpoint store (save_checkpoints), the epoch *)
(* controller (train_model) and the cross-validation controller            *)
(* (cross_validate).                                                       *)
(*                                                                         *)
(* Numbers.  Python floats are modelled as exact rationals <<n, d>> in     *)
(* lowest terms with d >= 0; <<1, 0>> is float("inf").  np.std is kept as  *)
(* its square (the population variance), which is rational.                *)
(***************************************************************************)
EXTENDS Integers, Sequences, FiniteSets, TLC

(***************************************************************************)
(* Bounds of the exploration.                                              *)
(***************************************************************************)
MaxCalls == 2
MaxEpoches == 2
MaxStart == 1
MaxSaves == 3

(***************************************************************************)
(* Rational arithmetic.                                                    *)
(***************************************************************************)
RECURSIVE GCD(_, _)
GCD(a, b) ==
    IF b = 0 THEN a ELSE GCD(b, a % b)

Rat(n, d) ==
    IF d = 0 THEN <<1, 0>> ELSE <<n \div GCD(n, d), d \div GCD(n, d)>>

Inf ==
    <<1, 0>>

RInt(k) ==
    <<k, 1>>

\* a < b on floats: cross-multiplication; nothing is < itself, every finite
\* value is < inf
RLess(a, b) ==
    a[1] * b[2] < b[1] * a[2]

RLeq(a, b) ==
    ~RLess(b, a)

RAdd(a, b) ==
    IF a[2] = 0 \/ b[2] = 0 THEN Inf ELSE Rat(a[1] * b[2] + b[1] * a[2], a[2] * b[2])

RSub(a, b) ==
    Rat(a[1] * b[2] - b[1] * a[2], a[2] * b[2])

RMul(a, b) ==
    IF a[2] = 0 \/ b[2] = 0 THEN Inf ELSE Rat(a[1] * b[1], a[2] * b[2])

RDivInt(a, k) ==
    IF a[2] = 0 THEN Inf ELSE Rat(a[1], a[2] * k)

RECURSIVE RSum(_)
RSum(s) ==
    IF s = <<>> THEN RInt(0) ELSE RAdd(Head(s), RSum(Tail(s)))

(***************************************************************************)
(* Collaborators.  The model and the optimizer are abstracted to counters: *)
(* params is the number of updates applied to the parameters, opt the      *)
(* number of optimizer.step calls in the optimizer's state, grads the      *)
(* state of the accumulated gradients, mode the model's train/eval mode.   *)
(* A feed (DataLoader) is the sequence of the sizes of its batches.        *)
(* The loss of a batch is a deterministic stub: a cyclic table indexed by  *)
(* the parameter version and the batch's position in the feed.             *)
(***************************************************************************)
LossStubs ==
    {<<3, 2, 1>>, <<1, 2, 3>>, <<2, 2, 2>>, <<2, 1, 3>>}

Names ==
    {"Net"}

Phases_valFirst ==
    <<"val", "train">>

Phases ==
    <<"train", "val">>

InitEnv ==
    [params |-> 0, opt |-> 0, grads |-> "unset", mode |-> "train"]

BatchLoss(lossfn, params, i) ==
    RInt(lossfn[((params + i - 1) % Len(lossfn)) + 1])

\* len(dset) of a DataLoader: the number of batches
DataLoaderLen(feed) ==
    Len(feed)

Call(dataset, op, grad) ==
    [phase |-> dataset, op |-> op, grad_enabled |-> grad]

\* Module.train() / Module.eval()
SetMode(dataset, st) ==
    [st EXCEPT !.env.mode = IF dataset = "train" THEN "train" ELSE "eval",
               !.calls = Append(@, Call(dataset, IF dataset = "train" THEN "train()" ELSE "eval()", TRUE))]

\* optimizer.zero_grad()
ZeroGrad(dataset, st) ==
    [st EXCEPT !.env.grads = "cleared",
               !.calls = Append(@, Call(dataset, "zero_grad", TRUE))]

\* outputs = training_model(...); current_loss = loss_func(outputs, targets)
Forward(dataset, st, lossfn, i) ==
    [st EXCEPT !.current_loss = BatchLoss(lossfn, st.env.params, i),
               !.calls = Append(@, Call(dataset, "forward", dataset = "train"))]

\* current_loss.backward(); optimizer.step()
BackwardStep(dataset, st) ==
    [st EXCEPT !.env.grads = "set",
               !.env.params = @ + 1,
               !.env.opt = @ + 1,
               !.calls = @ \o <<Call(dataset, "backward", dataset = "train"),
                                Call(dataset, "step", dataset = "train")>>]

BatchBody_stepInEveryPhase(dataset, st, lossfn, i, size) ==
    LET z == ZeroGrad(dataset, st)
        f == Forward(dataset, z, lossfn, i)
        b == BackwardStep(dataset, f)
    IN  [b EXCEPT !.loss_epoch = RAdd(@, RMul(b.current_loss, RInt(size))),
                  !.batches = Append(@, [phase |-> dataset, loss |-> b.current_loss,
                                         size |-> size])]

\* the body of the loop over the batches of one feed
BatchBody(dataset, st, lossfn, i, size) ==
    LET z == ZeroGrad(dataset, st)
        f == Forward(dataset, z, lossfn, i)
        b == IF dataset = "train" THEN BackwardStep(dataset, f) ELSE f
    IN  [b EXCEPT !.loss_epoch = RAdd(@, RMul(b.current_loss, RInt(size))),
                  !.batches = Append(@, [phase |-> dataset, loss |-> b.current_loss,
                                         size |-> size])]

RECURSIVE RunBatches(_, _, _, _, _)
RunBatches(dataset, feed, i, st, lossfn) ==
    IF i > Len(feed) THEN st
    ELSE RunBatches(dataset, feed, i + 1, BatchBody(dataset, st, lossfn, i, feed[i]), lossfn)

RunPhase_infOnEmptyFeed(dataset, dloader, st, lossfn) ==
    LET s0 == SetMode(dataset, [st EXCEPT !.loss_epoch = RInt(0),
                                          !.val_before = IF dataset = "val" THEN st.env ELSE @])
        s1 == RunBatches(dataset, dloader[dataset], 1, s0, lossfn)
        n  == DataLoaderLen(dloader[dataset])
    IN  [s1 EXCEPT !.loss = Append(@, IF n = 0 THEN Inf ELSE RDivInt(s1.loss_epoch, n))]

\* one phase: mode switch, the batches, the mean loss
RunPhase(dataset, dloader, st, lossfn) ==
    LET s0 == SetMode(dataset, [st EXCEPT !.loss_epoch = RInt(0),
                                          !.val_before = IF dataset = "val" THEN st.env ELSE @])
        s1 == RunBatches(dataset, dloader[dataset], 1, s0, lossfn)
        n  == DataLoaderLen(dloader[dataset])
    IN  IF n = 0
        THEN [s1 EXCEPT !.raised = "ZeroDivisionError"]
        ELSE [s1 EXCEPT !.loss = Append(@, RDivInt(s1.loss_epoch, n))]

RECURSIVE RunPhases(_, _, _, _)
RunPhases(k, dloader, st, lossfn) ==
    IF k > Len(Phases) \/ st.raised # "none" THEN st
    ELSE RunPhases(k + 1, dloader, RunPhase(Phases[k], dloader, st, lossfn), lossfn)

\* train_single_fold: the exception raised or the list loss, the collaborators
\* afterwards, and a record of the pass (the collaborator invocations in order,
\* the loss and size of every batch, the collaborators when the val pass began)
train_single_fold(e0, dloader, stub) ==
    LET st == RunPhases(1, dloader,
                        [env |-> e0, loss |-> <<>>, loss_epoch |-> RInt(0),
                         current_loss |-> RInt(0), raised |-> "none", calls |-> <<>>,
                         batches |-> <<>>, val_before |-> e0],
                        stub)
    IN  [raised |-> st.raised, loss |-> st.loss, env |-> st.env, calls |-> st.calls,
         batches |-> st.batches, val_before |-> st.val_before]

(***************************************************************************)
(* Checkpoint store.  A call of save_checkpoints is modelled with Python's *)
(* argument binding: positional arguments fill the parameters in order,    *)
(* keyword arguments fill them by name, and a parameter given both ways or *)
(* a required parameter given neither way is a TypeError.                  *)
(***************************************************************************)
SaveParams ==
    <<"training_model", "optimizer", "logger", "root_path", "model_name",
      "loss", "e", "best_loss", "suffix">>

SaveDefaults ==
    [suffix |-> "latest"]

ParamIndex(p) ==
    CHOOSE i \in 1..Len(SaveParams) : SaveParams[i] = p

\* binding of a call save_checkpoints(*pos, **kw)
BindSave(pos, kw) ==
    LET byPos == {SaveParams[i] : i \in 1..Len(pos)}
        given == byPos \cup DOMAIN kw
        all   == {SaveParams[i] : i \in 1..Len(SaveParams)}
    IN  IF byPos \cap DOMAIN kw # {} \/ ~(all \ DOMAIN SaveDefaults \subseteq given)
        THEN [raised |-> "TypeError"]
        ELSE [raised |-> "none",
              args |-> [p \in all |->
                          IF p \in byPos THEN pos[ParamIndex(p)]
                          ELSE IF p \in DOMAIN kw THEN kw[p]
                          ELSE SaveDefaults[p]]]

\* path.join(root_path, f"{model_name}_{suffix}.ckpt")
SavePath(root_path, model_name, suffix) ==
    <<root_path, model_name, suffix>>

CheckpointRecord_shortNames(a, en) ==
    [epoch |-> a["e"],
     model_state |-> en.params,
     optimizer_state |-> en.opt,
     loss |-> a["loss"],
     best_loss |-> a["best_loss"]]

\* the record handed to torch.save
CheckpointRecord(a, env) ==
    [epoch |-> a["e"],
     model_state_dict |-> env.params,
     optimizer_state_dict |-> env.opt,
     loss |-> a["loss"],
     best_loss |-> a["best_loss"]]

TorchSave_keepsOnlyNew(fs, save_path, rec) ==
    [q \in {save_path} |-> rec]

\* torch.save(record, save_path): the file at save_path is replaced
TorchSave(fs, save_path, rec) ==
    [q \in DOMAIN fs \cup {save_path} |-> IF q = save_path THEN rec ELSE fs[q]]

\* save_checkpoints(*pos, **kw) on the file system fs: [raised, files, log]
save_checkpoints(fs, log, env, pos, kw) ==
    LET b == BindSave(pos, kw)
    IN  IF b.raised # "none"
        THEN [raised |-> b.raised, files |-> fs, log |-> log]
        ELSE LET a == b.args
                 save_path == SavePath(a["root_path"], a["model_name"], a["suffix"])
                 rec == CheckpointRecord(a, env)
             IN  [raised |-> "none",
                  files |-> TorchSave(fs, save_path, rec),
                  log |-> Append(log, [path |-> save_path, rec |-> rec])]

(***************************************************************************)
(* Feeds of cross_validate: KFold(n_splits) over n samples gives n % K     *)
(* validation folds of n \div K + 1 indices and the rest of n \div K; a    *)
(* DataLoader over m sampled indices yields batches of batch_size and a    *)
(* last, smaller one.                                                      *)
(***************************************************************************)
DatasetSizes ==
    {5}

BatchSizes ==
    {2, 128}

SplitChoices ==
    {2}

RECURSIVE Batches(_, _)
Batches(m, batch_size) ==
    IF m = 0 THEN <<>>
    ELSE IF m <= batch_size THEN <<m>>
    ELSE <<batch_size>> \o Batches(m - batch_size, batch_size)

KFoldValSize(n, n_splits, fold) ==
    (n \div n_splits) + (IF fold < n % n_splits THEN 1 ELSE 0)

\* dloader: one pair of feeds per fold, folds numbered 0 .. n_splits - 1
BuildDloader(n, n_splits, batch_size) ==
    [fold \in 0..(n_splits - 1) |->
        [train |-> Batches(n - KFoldValSize(n, n_splits, fold), batch_size),
         val   |-> Batches(KFoldValSize(n, n_splits, fold), batch_size)]]

\* random_state of the KFold of cross_validate
KFoldSeed ==
    42

\* RandomState(seed).shuffle(arange(n)): the generator is a deterministic
\* function of its seed; a rotation by the seed stands for its permutation
Shuffled(seed, n) ==
    [i \in 1..n |-> (i - 1 + seed) % n]

\* number of samples in the validation folds before fold
FoldStart(n, n_splits, fold) ==
    fold * (n \div n_splits) + (IF fold < n % n_splits THEN fold ELSE n % n_splits)

\* KFold(n_splits, shuffle=True, random_state=seed).split(dataset): fold f
\* validates on the f-th slice of the shuffled indices and trains on the rest
KFoldSplit(n, n_splits, seed) ==
    [fold \in 0..(n_splits - 1) |->
        LET val_idx == {Shuffled(seed, n)[i] :
                           i \in (FoldStart(n, n_splits, fold) + 1)..
                                 (FoldStart(n, n_splits, fold)
                                    + KFoldValSize(n, n_splits, fold))}
        IN  [train_idx |-> (0..(n - 1)) \ val_idx, val_idx |-> val_idx]]

\* np.mean(fold_loss)
NpMean(xs) ==
    RDivInt(RSum(xs), Len(xs))

NpStdSquared_sample(xs) ==
    LET m == NpMean(xs)
    IN  RDivInt(RSum([i \in 1..Len(xs) |-> RMul(RSub(xs[i], m), RSub(xs[i], m))]),
                Len(xs) - 1)

\* np.std(fold_loss) squared: the population variance
NpStdSquared(xs) ==
    LET m == NpMean(xs)
    IN  RDivInt(RSum([i \in 1..Len(xs) |-> RMul(RSub(xs[i], m), RSub(xs[i], m))]), Len(xs))

(***************************************************************************)
(* State.                                                                  *)
(*   lossfn     the loss stub of this run                                  *)
(*   env        the caller's model and optimizer                           *)
(*   files      the checkpoint files, by path                              *)
(*   hist       the history objects: the default-argument objects of       *)
(*              train_model and cross_validate (created once, when the     *)
(*              functions are defined) and the objects the caller owns     *)
(*   pc         position of the single thread of control                   *)
(*   tm, cv     locals of the running train_model / cross_validate call    *)
(*   exc        exception that ended the last call ("none" if it returned) *)
(*   ncalls     number of calls made so far                                *)
(*   ckpt_log   checkpoint writes of the current call, in order            *)
(*   last_pass  the most recent train_single_fold invocation               *)
(*   tm_calls   arguments and outcome of the train_model calls so far      *)
(*   resumed    TRUE while every cross_validate call so far was given the  *)
(*              best_loss stored in the "latest" checkpoint of its prefix, *)
(*              or the default +inf when there was no such file            *)
(*   splits     the folds drawn by the cross_validate calls so far, by     *)
(*              dataset size and number of splits                          *)
(***************************************************************************)
VARIABLES lossfn, env, files, hist, pc, tm, cv, exc, ncalls, ckpt_log, last_pass, tm_calls,
          resumed, splits

vars ==
    <<lossfn, env, files, hist, pc, tm, cv, exc, ncalls, ckpt_log, last_pass, tm_calls,
      resumed, splits>>

EmptyTM ==
    [train |-> <<>>, val |-> <<>>]

EmptyCV ==
    [mean |-> <<>>, std |-> <<>>]

DloaderChoices ==
    {[train |-> <<4, 6>>, val |-> <<4, 6>>],
     [train |-> <<2, 1>>, val |-> <<2>>],
     [train |-> <<2>>, val |-> <<>>],
     [train |-> <<>>, val |-> <<2>>]}

LossArgs ==
    {"default", "fresh", "keep"}

NoTM ==
    [active |-> FALSE]

NoCV ==
    [active |-> FALSE]

NoPass ==
    [ran |-> FALSE]

Init ==
    /\ lossfn \in LossStubs
    /\ env = InitEnv
    /\ files = <<>>
    /\ hist = [tm_default |-> EmptyTM, tm_caller |-> EmptyTM,
               cv_default |-> EmptyCV, cv_caller |-> EmptyCV]
    /\ pc = "idle"
    /\ tm = NoTM
    /\ cv = NoCV
    /\ exc = "none"
    /\ ncalls = 0
    /\ ckpt_log = <<>>
    /\ last_pass = NoPass
    /\ tm_calls = <<>>
    /\ resumed = TRUE
    /\ splits = <<>>

PassRecord(before, dloader, r) ==
    [ran |-> TRUE, dloader |-> dloader, before |-> before, after |-> r.env,
     raised |-> r.raised, loss |-> r.loss, calls |-> r.calls,
     batches |-> r.batches, val_before |-> r.val_before]

\* a direct call of train_single_fold by the caller
TSFCall(dloader) ==
    /\ pc = "idle"
    /\ ncalls < MaxCalls
    /\ LET r == train_single_fold(env, dloader, lossfn)
       IN  /\ env' = r.env
           /\ exc' = r.raised
           /\ last_pass' = PassRecord(env, dloader, r)
    /\ ncalls' = ncalls + 1
    /\ ckpt_log' = <<>>
    /\ UNCHANGED <<lossfn, splits, files, hist, pc, tm, cv, tm_calls, resumed>>

StoreRoots ==
    {".", "runs"}

StoreNames ==
    {"Net", "Net_best"}

StoreEpochs ==
    {0, 1}

\* a direct call of save_checkpoints by the caller, all arguments by keyword,
\* suffix left at its default or given as "best"
SaveCall(root_path, model_name, best, e) ==
    /\ pc = "idle"
    /\ ncalls < MaxSaves
    /\ LET sv == save_checkpoints(files, <<>>, env, <<>>,
                                  (IF best THEN [suffix |-> "best"] ELSE <<>>)
                                  @@ [training_model |-> "training_model",
                                      optimizer |-> "optimizer", logger |-> "logger",
                                      root_path |-> root_path, model_name |-> model_name,
                                      loss |-> EmptyCV, e |-> e, best_loss |-> Inf])
       IN  /\ files' = sv.files
           /\ ckpt_log' = sv.log
           /\ exc' = sv.raised
    /\ ncalls' = ncalls + 1
    /\ UNCHANGED <<lossfn, splits, env, hist, pc, tm, cv, last_pass, tm_calls, resumed>>

(***************************************************************************)
(* train_model.                                                            *)
(***************************************************************************)
NoWrite(fs, log) ==
    [raised |-> "none", files |-> fs, log |-> log]

\* save_checkpoints(training_model, optimizer, root_path, model_name, loss,
\*                  e=e, [suffix="best",] best_loss=best_val_loss, logger=logger)
TMSave(fs, log, en, loc, h, suffixKw) ==
    save_checkpoints(fs, log, en,
                     <<"training_model", "optimizer", loc.root_path, loc.model_name, h>>,
                     suffixKw @@ [e |-> loc.e, best_loss |-> loc.best_val_loss,
                                  logger |-> "logger"])

\* outcome of one iteration of the epoch loop
TMResult(raised, loc, r, h, w) ==
    [raised |-> raised, loc |-> loc, env |-> r.env, h |-> h,
     files |-> w.files, log |-> w.log, pass |-> r]

\* the loop variable advances when the write sl of the "latest" checkpoint returned
TMAdvance(loc, r, h, sl) ==
    TMResult(sl.raised, IF sl.raised = "none" THEN [loc EXCEPT !.e = @ + 1] ELSE loc, r, h, sl)

\* lines 90-99: the "latest" checkpoint, after the write sb of the "best" one
TMLatest(loc, r, h, sb) ==
    IF sb.raised # "none" THEN TMResult(sb.raised, loc, r, h, sb)
    ELSE TMAdvance(loc, r, h, TMSave(sb.files, sb.log, r.env, loc, h, <<>>))

\* lines 77-89: the comparison with best_val_loss and the "best" checkpoint
TMBest(loc, r, h, fs, log) ==
    IF RLess(h.val[Len(h.val)], loc.best_val_loss)
    THEN TMLatest([loc EXCEPT !.best_val_loss = h.val[Len(h.val)]], r, h,
                  TMSave(fs, log, r.env,
                         [loc EXCEPT !.best_val_loss = h.val[Len(h.val)]], h,
                         [suffix |-> "best"]))
    ELSE TMLatest(loc, r, h, NoWrite(fs, log))

\* lines 75-76: the two appends, after the pass r
TMAppend(loc, r, h, fs, log) ==
    IF r.raised # "none" THEN TMResult(r.raised, loc, r, h, NoWrite(fs, log))
    ELSE TMBest(loc, r, [train |-> Append(h.train, r.loss[1]),
                         val   |-> Append(h.val, r.loss[2])], fs, log)

\* the body of the epoch loop of train_model, on the locals loc, the
\* collaborators e0, the history object h and the files fs
TMBody(loc, e0, h, fs, log, stub) ==
    TMAppend(loc, train_single_fold(e0, loc.dloader, stub), h, fs, log)

\* the whole loop of train_model from the state st = [raised, loc, env, h, files, log]
RECURSIVE TMRun(_, _)
TMRun(st, stub) ==
    IF st.raised # "none" \/ st.loc.e >= st.loc.stop THEN st
    ELSE TMRun(TMBody(st.loc, st.env, st.h, st.files, st.log, stub), stub)

TMBestArgs ==
    {Inf} \cup {tm_calls[i].best_out : i \in {Len(tm_calls)} \ {0}}

TMCall(start_epoch, epoches, lossArg, best_val_loss, dloader, model_name) ==
    /\ pc = "idle"
    /\ ncalls < MaxCalls
    /\ LET ref == IF lossArg = "default" THEN "tm_default" ELSE "tm_caller"
           h   == IF lossArg = "fresh" THEN [hist EXCEPT !.tm_caller = EmptyTM] ELSE hist
       IN  /\ hist' = h
           /\ tm' = [active |-> TRUE, e |-> start_epoch, stop |-> start_epoch + epoches,
                     start_epoch |-> start_epoch, epoches |-> epoches,
                     loss |-> ref, best_val_loss |-> best_val_loss,
                     root_path |-> ".", model_name |-> model_name, dloader |-> dloader,
                     loss_in |-> h[ref], best_in |-> best_val_loss, env_in |-> env]
    /\ pc' = "tm_epoch"
    /\ exc' = "none"
    /\ ncalls' = ncalls + 1
    /\ ckpt_log' = <<>>
    /\ UNCHANGED <<lossfn, splits, env, files, cv, last_pass, tm_calls, resumed>>

TMOutcome(loc, h, raised, log, en) ==
    [start_epoch |-> loc.start_epoch, epoches |-> loc.epoches, loss |-> loc.loss,
     dloader |-> loc.dloader, loss_in |-> loc.loss_in, best_in |-> loc.best_in,
     env_in |-> loc.env_in, loss_out |-> h, best_out |-> loc.best_val_loss,
     raised |-> raised, writes |-> log, env_out |-> en, model_name |-> loc.model_name]

TMApply(b, before) ==
    /\ env' = b.env
    /\ hist' = [hist EXCEPT ![tm.loss] = b.h]
    /\ files' = b.files
    /\ ckpt_log' = b.log
    /\ last_pass' = PassRecord(before, tm.dloader, b.pass)
    /\ exc' = b.raised
    /\ IF b.raised = "none"
       THEN /\ tm' = b.loc
            /\ pc' = "tm_epoch"
            /\ UNCHANGED tm_calls
       ELSE /\ tm' = NoTM
            /\ pc' = "idle"
            /\ tm_calls' = Append(tm_calls, TMOutcome(b.loc, b.h, b.raised, b.log, b.env))

\* one iteration of the epoch loop
TMEpoch ==
    /\ pc = "tm_epoch"
    /\ tm.e < tm.stop
    /\ TMApply(TMBody(tm, env, hist[tm.loss], files, ckpt_log, lossfn), env)
    /\ UNCHANGED <<lossfn, splits, cv, ncalls, resumed>>

\* the loop is exhausted: train_model returns
TMReturn ==
    /\ pc = "tm_epoch"
    /\ tm.e >= tm.stop
    /\ tm' = NoTM
    /\ pc' = "idle"
    /\ tm_calls' = Append(tm_calls, TMOutcome(tm, hist[tm.loss], "none", ckpt_log, env))
    /\ UNCHANGED <<lossfn, splits, env, files, hist, cv, exc, ncalls, ckpt_log, last_pass,
                   resumed>>

(***************************************************************************)
(* cross_validate.                                                         *)
(***************************************************************************)
\* save_checkpoints(training_model=..., optimizer=..., model_name=prefix,
\*                  root_path=..., loss=loss, e=e, [suffix="best",]
\*                  best_loss=best_loss, logger=logger)
CVSave(fs, log, en, loc, h, suffixKw) ==
    save_checkpoints(fs, log, en, <<>>,
                     suffixKw @@ [training_model |-> "training_model",
                                  optimizer |-> "optimizer",
                                  model_name |-> loc.prefix,
                                  root_path |-> loc.root_path,
                                  loss |-> h, e |-> loc.e,
                                  best_loss |-> loc.best_loss,
                                  logger |-> "logger"])

LatestPath(name) ==
    SavePath(".", name, "latest")

BestPath(name) ==
    SavePath(".", name, "best")

\* the best_loss values a caller passes: the default, a value of its own,
\* or the one stored in the latest checkpoint
CVBestArgs(name) ==
    {Inf, RInt(2)} \cup
    (IF LatestPath(name) \in DOMAIN files THEN {files[LatestPath(name)].best_loss} ELSE {})

\* the best_loss a caller resuming from the "latest" checkpoint passes
StoredBest(name) ==
    IF LatestPath(name) \in DOMAIN files THEN files[LatestPath(name)].best_loss ELSE Inf

\* single_fold_func: the default, train_single_fold
DefaultFold ==
    [name |-> "train_single_fold", fail_at |-> -1]

FailPoints ==
    {-1, 0, 1, 2, 3}

\* single_fold_func: functions the caller injects.  A stub with the contract
\* of train_single_fold: its k-th invocation (counted from 0 within the call
\* of cross_validate) returns [0, (k % 5) + 1] and leaves the model alone,
\* except the invocation numbered fail_at, which applies one optimizer step
\* and then raises.
InjectedFolds ==
    {[name |-> "stub", fail_at |-> k] : k \in FailPoints}

StubPass(func, e0, k) ==
    IF k = func.fail_at
    THEN [raised |-> "RuntimeError", loss |-> <<>>,
          env |-> [e0 EXCEPT !.params = @ + 1, !.opt = @ + 1, !.grads = "set"],
          calls |-> <<>>, batches |-> <<>>, val_before |-> e0]
    ELSE [raised |-> "none", loss |-> <<RInt(0), RInt((k % 5) + 1)>>,
          env |-> e0, calls |-> <<>>, batches |-> <<>>, val_before |-> e0]

\* floss = single_fold_func(training_model=..., dloader=..., ...)
SingleFoldCall(func, e0, dloader, stub, k) ==
    IF func.name = "train_single_fold"
    THEN train_single_fold(e0, dloader, stub)
    ELSE StubPass(func, e0, k)

\* the folds drawn so far, with those of a split of n samples into n_splits
RecordSplit(sp, n, n_splits, folds) ==
    [q \in DOMAIN sp \cup {<<n, n_splits>>} |->
        IF q = <<n, n_splits>> THEN folds ELSE sp[q]]

CVFolds_unseeded(n, n_splits) ==
    KFoldSplit(n, n_splits, KFoldSeed + ncalls)

\* lines 254-257: the folds of a call, drawn by a KFold seeded with 42
CVFolds(n, n_splits) ==
    KFoldSplit(n, n_splits, KFoldSeed)

CVCall(n, n_splits, batch_size, start_epoches, epoches, lossArg, best_loss, prefix, func) ==
    /\ pc = "idle"
    /\ ncalls < MaxCalls
    /\ n >= n_splits
    /\ LET ref == IF lossArg = "default" THEN "cv_default" ELSE "cv_caller"
           h   == IF lossArg = "fresh" THEN [hist EXCEPT !.cv_caller = EmptyCV] ELSE hist
       IN  /\ hist' = h
           /\ cv' = [active |-> TRUE, e |-> start_epoches, stop |-> start_epoches + epoches,
                     start_epoches |-> start_epoches, epoches |-> epoches,
                     n_splits |-> n_splits, n |-> n,
                     folds |-> CVFolds(n, n_splits),
                     dloader |-> BuildDloader(n, n_splits, batch_size),
                     single_fold_func |-> func,
                     loss |-> ref, best_loss |-> best_loss,
                     root_path |-> ".", prefix |-> prefix,
                     fold |-> 0, fold_loss |-> <<>>,
                     len_in |-> Len(h[ref].mean), best_in |-> best_loss]
    /\ pc' = "cv_epoch"
    /\ exc' = "none"
    /\ ncalls' = ncalls + 1
    /\ ckpt_log' = <<>>
    /\ resumed' = (resumed /\ best_loss = StoredBest(prefix))
    /\ splits' = RecordSplit(splits, n, n_splits, CVFolds(n, n_splits))
    /\ UNCHANGED <<lossfn, env, files, tm, last_pass, tm_calls>>

\* head of the epoch loop: a new epoch starts with an empty fold_loss
CVEpochStart ==
    /\ pc = "cv_epoch"
    /\ cv.e < cv.stop
    /\ cv' = [cv EXCEPT !.fold = 0, !.fold_loss = <<>>]
    /\ pc' = "cv_fold"
    /\ UNCHANGED <<lossfn, splits, env, files, hist, tm, exc, ncalls, ckpt_log, last_pass, tm_calls,
                   resumed>>

\* the epoch loop is exhausted: cross_validate returns
CVReturn ==
    /\ pc = "cv_epoch"
    /\ cv.e >= cv.stop
    /\ cv' = NoCV
    /\ pc' = "idle"
    /\ UNCHANGED <<lossfn, splits, env, files, hist, tm, exc, ncalls, ckpt_log, last_pass, tm_calls,
                   resumed>>

\* number of invocations of single_fold_func made so far by the call
PassIndex(loc) ==
    (loc.e - loc.start_epoches) * loc.n_splits + loc.fold

CVFoldFeeds_firstFold(loc) ==
    loc.dloader[0]

\* line 284: dloader=dloader[fold]
CVFoldFeeds(loc) ==
    loc.dloader[loc.fold]

\* line 290: floss[-1]
CVCollect(floss) ==
    floss[Len(floss)]

CVFold_skipsFailedFold ==
    /\ pc = "cv_fold"
    /\ cv.fold < cv.n_splits
    /\ LET r == SingleFoldCall(cv.single_fold_func, env, CVFoldFeeds(cv), lossfn,
                               PassIndex(cv))
       IN  /\ env' = r.env
           /\ last_pass' = PassRecord(env, CVFoldFeeds(cv), r)
           /\ exc' = r.raised
           /\ cv' = [cv EXCEPT !.fold_loss = IF r.raised = "none"
                                             THEN Append(@, CVCollect(r.loss)) ELSE @,
                               !.fold = @ + 1]
           /\ pc' = "cv_fold"
    /\ UNCHANGED <<lossfn, splits, files, hist, tm, ncalls, ckpt_log, tm_calls, resumed>>

\* one iteration of the fold loop: single_fold_func on dloader[fold]
CVFold ==
    /\ pc = "cv_fold"
    /\ cv.fold < cv.n_splits
    /\ LET r == SingleFoldCall(cv.single_fold_func, env, CVFoldFeeds(cv), lossfn,
                               PassIndex(cv))
       IN  /\ env' = r.env
           /\ last_pass' = PassRecord(env, CVFoldFeeds(cv), r)
           /\ exc' = r.raised
           /\ IF r.raised = "none"
              THEN /\ cv' = [cv EXCEPT !.fold_loss = Append(@, CVCollect(r.loss)),
                                       !.fold = @ + 1]
                   /\ pc' = "cv_fold"
              ELSE /\ cv' = NoCV
                   /\ pc' = "idle"
    /\ UNCHANGED <<lossfn, splits, files, hist, tm, ncalls, ckpt_log, tm_calls, resumed>>

CVAppend_meanOnly(h, fold_loss) ==
    [mean |-> Append(h.mean, NpMean(fold_loss)),
     std  |-> h.std]

\* lines 293-296: the aggregate of the epoch is appended to the history
CVAppend(h, fold_loss) ==
    [mean |-> Append(h.mean, NpMean(fold_loss)),
     std  |-> Append(h.std, NpStdSquared(fold_loss))]

CVImproves_orEqual(fold_loss_mean, best_loss) ==
    RLeq(fold_loss_mean, best_loss)

\* line 302: fold_loss_mean < best_loss
CVImproves(fold_loss_mean, best_loss) ==
    RLess(fold_loss_mean, best_loss)

CVBestWrite_beforeUpdate(loc, fold_loss_mean, h, fs, log, en) ==
    [loc |-> [loc EXCEPT !.best_loss = fold_loss_mean],
     w   |-> CVSave(fs, log, en, loc, h, [suffix |-> "best"])]

CVBestWrite_keepsOldBest(loc, fold_loss_mean, h, fs, log, en) ==
    [loc |-> loc,
     w   |-> CVSave(fs, log, en, [loc EXCEPT !.best_loss = fold_loss_mean], h,
                    [suffix |-> "best"])]

\* lines 303-314: best_loss is updated, then the "best" checkpoint is written
CVBestWrite(loc, fold_loss_mean, h, fs, log, en) ==
    [loc |-> [loc EXCEPT !.best_loss = fold_loss_mean],
     w   |-> CVSave(fs, log, en, [loc EXCEPT !.best_loss = fold_loss_mean], h,
                    [suffix |-> "best"])]

\* lines 302-314
CVBest(loc, fold_loss_mean, h, fs, log, en) ==
    IF CVImproves(fold_loss_mean, loc.best_loss)
    THEN CVBestWrite(loc, fold_loss_mean, h, fs, log, en)
    ELSE [loc |-> loc, w |-> NoWrite(fs, log)]

CVApplyBest(h, b) ==
    /\ hist' = [hist EXCEPT ![cv.loss] = h]
    /\ files' = b.w.files
    /\ ckpt_log' = b.w.log
    /\ exc' = b.w.raised
    /\ IF b.w.raised = "none"
       THEN cv' = b.loc /\ pc' = "cv_latest"
       ELSE cv' = NoCV /\ pc' = "idle"

CVAggregateStep(h) ==
    CVApplyBest(h, CVBest(cv, h.mean[Len(h.mean)], h, files, ckpt_log, env))

\* after the folds: aggregate, append, and the "best" checkpoint
CVAggregate ==
    /\ pc = "cv_fold"
    /\ cv.fold >= cv.n_splits
    /\ CVAggregateStep(CVAppend(hist[cv.loss], cv.fold_loss))
    /\ UNCHANGED <<lossfn, splits, env, tm, ncalls, last_pass, tm_calls, resumed>>

CVLatestWrite_unlessBest(loc, h, fs, log, en) ==
    IF log # <<>> /\ log[Len(log)].path[3] = "best" /\ log[Len(log)].rec.epoch = loc.e
    THEN NoWrite(fs, log)
    ELSE CVSave(fs, log, en, loc, h, <<>>)

CVLatestWrite_nextEpoch(loc, h, fs, log, en) ==
    CVSave(fs, log, en, [loc EXCEPT !.e = @ + 1], h, <<>>)

\* lines 317-326: the "latest" checkpoint
CVLatestWrite(loc, h, fs, log, en) ==
    CVSave(fs, log, en, loc, h, <<>>)

\* the "latest" checkpoint, then the next epoch
CVSaveLatest ==
    /\ pc = "cv_latest"
    /\ LET sl == CVLatestWrite(cv, hist[cv.loss], files, ckpt_log, env)
       IN  /\ files' = sl.files
           /\ ckpt_log' = sl.log
           /\ exc' = sl.raised
           /\ IF sl.raised = "none"
              THEN cv' = [cv EXCEPT !.e = @ + 1] /\ pc' = "cv_epoch"
              ELSE cv' = NoCV /\ pc' = "idle"
    /\ UNCHANGED <<lossfn, splits, env, hist, tm, ncalls, last_pass, tm_calls, resumed>>

\* the caller drives the single-pass trainer and the epoch controller
NextTrain ==
    \/ \E d \in DloaderChoices : TSFCall(d)
    \/ \E s \in 0..MaxStart, n \in 0..MaxEpoches, a \in LossArgs, b \in TMBestArgs,
          d \in DloaderChoices, m \in Names : TMCall(s, n, a, b, d, m)
    \/ TMEpoch
    \/ TMReturn

\* the caller drives the cross-validation controller
NextCV ==
    \/ \E n \in DatasetSizes, k \in SplitChoices, bs \in BatchSizes,
          s \in 0..MaxStart, ep \in 0..MaxEpoches, a \in LossArgs, m \in Names :
          \E b \in CVBestArgs(m) : CVCall(n, k, bs, s, ep, a, b, m, DefaultFold)
    \/ CVEpochStart
    \/ CVFold
    \/ CVAggregate
    \/ CVSaveLatest
    \/ CVReturn

InjectSplits ==
    {2, 5}

\* the caller drives the cross-validation controller with an injected
\* single_fold_func
NextInject ==
    \/ \E n \in DatasetSizes, k \in InjectSplits, s \in 0..MaxStart, ep \in 0..MaxEpoches,
          a \in LossArgs, m \in Names, f \in InjectedFolds :
          CVCall(n, k, 128, s, ep, a, StoredBest(m), m, f)
    \/ CVEpochStart
    \/ CVFold
    \/ CVAggregate
    \/ CVSaveLatest
    \/ CVReturn

\* the caller drives the checkpoint store
NextStore ==
    \E r \in StoreRoots, m \in StoreNames, b \in BOOLEAN, e \in StoreEpochs :
        SaveCall(r, m, b, e)

Next ==
    \/ NextTrain
    \/ NextCV
    \/ NextInject
    \/ NextStore

Spec ==
    Init /\ [][Next]_vars

SpecTrain ==
    Init /\ [][NextTrain]_vars

SpecCV ==
    Init /\ [][NextCV]_vars

SpecInject ==
    Init /\ [][NextInject]_vars

SpecStore ==
    Init /\ [][NextStore]_vars

(***************************************************************************)
(* Properties.                                                             *)
(***************************************************************************)
IsLatestWrite(w) ==
    w.path[3] = "latest"

IsBestWrite(w) ==
    w.path[3] = "best"

RMin(a, b) ==
    IF RLess(b, a) THEN b ELSE a

\* the least of b and the first k entries of xs
RECURSIVE MinUpTo(_, _, _)
MinUpTo(b, xs, k) ==
    IF k = 0 THEN b ELSE RMin(MinUpTo(b, xs, k - 1), xs[k])

\* the entries appended to a history that had n entries when the call began
Appended(xs, n) ==
    SubSeq(xs, n + 1, Len(xs))

NonEmptyFeeds(dloader) ==
    dloader.train # <<>> /\ dloader.val # <<>>

\* C1: every train_model call on non-empty feeds runs all its epoches epochs
\* to completion; each epoch appends one train and one val loss, writes a
\* "best" checkpoint exactly when the new val loss is below the best so far,
\* and writes a "latest" checkpoint carrying the epoch index and the current
\* best loss.
C1_TrainModelCheckpointsEveryEpoch ==
    \A i \in DOMAIN tm_calls :
        LET c    == tm_calls[i]
            vals == Appended(c.loss_out.val, Len(c.loss_in.val))
            late == SelectSeq(c.writes, IsLatestWrite)
            best == SelectSeq(c.writes, IsBestWrite)
        IN  NonEmptyFeeds(c.dloader) =>
              /\ c.raised = "none"
              /\ Len(c.loss_out.train) = Len(c.loss_in.train) + c.epoches
              /\ Len(vals) = c.epoches
              /\ Len(late) = c.epoches
              /\ \A k \in 1..Len(late) :
                    /\ late[k].rec.epoch = c.start_epoch + k - 1
                    /\ late[k].rec.best_loss = MinUpTo(c.best_in, vals, k)
              /\ \A k \in 1..Len(vals) :
                    RLess(vals[k], MinUpTo(c.best_in, vals, k - 1))
                    <=> \E j \in 1..Len(best) : best[j].rec.epoch = c.start_epoch + k - 1

PhaseBatches(p, ph) ==
    SelectSeq(p.batches, LAMBDA b : b.phase = ph)

RECURSIVE WeightedLoss(_)
WeightedLoss(bs) ==
    IF bs = <<>> THEN RInt(0)
    ELSE RAdd(RMul(Head(bs).loss, RInt(Head(bs).size)), WeightedLoss(Tail(bs)))

RECURSIVE Examples(_)
Examples(bs) ==
    IF bs = <<>> THEN 0 ELSE Head(bs).size + Examples(Tail(bs))

\* C2: for each phase of a pass, the mean loss returned by train_single_fold
\* times the number of examples of the phase's feed is the sum over the
\* batches of batch loss times batch size.
C2_MeanLossPerExample ==
    last_pass.ran =>
        \A k \in 1..Len(last_pass.loss) :
            RMul(last_pass.loss[k], RInt(Examples(PhaseBatches(last_pass, Phases[k]))))
            = WeightedLoss(PhaseBatches(last_pass, Phases[k]))

LastOf(xs) ==
    xs[Len(xs)]

\* C3: in every epoch of cross_validate the step that aggregates the folds
\* writes a "best" checkpoint if and only if the epoch's mean fold loss is
\* strictly less than the best loss before the epoch; the checkpoint written
\* stores the new mean as best_loss, and otherwise nothing is written.
C3_BestIffStrictlyLess ==
    [][(pc = "cv_fold" /\ pc' = "cv_latest") =>
          LET m == LastOf(hist'[cv.loss].mean)
          IN  IF RLess(m, cv.best_loss)
              THEN /\ Len(ckpt_log') = Len(ckpt_log) + 1
                   /\ IsBestWrite(LastOf(ckpt_log'))
                   /\ LastOf(ckpt_log').rec.best_loss = m
                   /\ LastOf(ckpt_log').rec.epoch = cv.e
                   /\ files'[BestPath(cv.prefix)] = LastOf(ckpt_log').rec
              ELSE /\ ckpt_log' = ckpt_log
                   /\ files' = files]_vars

\* C3 witness: an epoch whose mean equals the best loss wrote no "best"
\* checkpoint (the last write is the previous epoch's "latest")
C3_Witness ==
    /\ pc = "cv_latest"
    /\ LastOf(hist[cv.loss].mean) = cv.best_loss
    /\ ckpt_log # <<>>
    /\ IsLatestWrite(LastOf(ckpt_log))
    /\ LastOf(ckpt_log).rec.epoch = cv.e - 1
    /\ LastOf(ckpt_log).rec.best_loss = cv.best_loss

\* C4: in cross_validate exactly one "latest" checkpoint is written per
\* epoch, after that epoch's "best" checkpoint if there is one, and the
\* epochs the "latest" checkpoints carry are start, start + 1, ... in order,
\* up to start + epoches - 1 when the call is about to return.
C4_OneLatestPerEpoch ==
    cv.active =>
        LET late == SelectSeq(ckpt_log, IsLatestWrite)
        IN  /\ Len(late) = cv.e - cv.start_epoches
            /\ \A k \in 1..Len(late) : late[k].rec.epoch = cv.start_epoches + k - 1
            /\ \A j \in 1..Len(ckpt_log) :
                  IsBestWrite(ckpt_log[j]) =>
                     IF j < Len(ckpt_log)
                     THEN /\ IsLatestWrite(ckpt_log[j + 1])
                          /\ ckpt_log[j + 1].rec.epoch = ckpt_log[j].rec.epoch
                     ELSE pc = "cv_latest" /\ ckpt_log[j].rec.epoch = cv.e
            /\ (pc = "cv_epoch" /\ cv.e >= cv.stop) => Len(late) = cv.epoches

\* C4 witness: a call resumed at epoch 1 is about to return after two
\* epochs, one of which wrote a "best" checkpoint and one of which did not
C4_Witness ==
    /\ cv.active
    /\ pc = "cv_epoch"
    /\ cv.e = cv.stop
    /\ cv.start_epoches = 1
    /\ cv.epoches = 2
    /\ Len(ckpt_log) = 3

\* call b resumes call a: same feeds, the caller's history object, carried best loss,
\* started right after a with start_epoch = a's start + a's epoches
ResumePair(a, b) ==
    /\ b.start_epoch = a.start_epoch + a.epoches
    /\ b.epoches = a.epoches
    /\ b.dloader = a.dloader
    /\ b.model_name = a.model_name
    /\ a.loss = "tm_caller"
    /\ b.loss = a.loss
    /\ b.loss_in = a.loss_out
    /\ b.best_in = a.best_out
    /\ b.env_in = a.env_out

\* the history after one call with a's arguments and twice its epoches
SingleRun(a) ==
    TMRun([raised |-> "none",
           loc |-> [e |-> a.start_epoch, stop |-> a.start_epoch + 2 * a.epoches,
                    best_val_loss |-> a.best_in, root_path |-> ".",
                    model_name |-> a.model_name, dloader |-> a.dloader],
           env |-> a.env_in, h |-> a.loss_in, files |-> <<>>, log |-> <<>>],
          lossfn).h

\* C5: a train_model call with start_epoch = S, epoches = E followed at once
\* by a second with start_epoch = S + E, epoches = E on the carried history
\* and best loss ends with the history of one call with epoches = 2E.
C5_ResumeEquivalence ==
    \A i \in 1..(Len(tm_calls) - 1) :
        ResumePair(tm_calls[i], tm_calls[i + 1]) =>
            tm_calls[i + 1].loss_out = SingleRun(tm_calls[i])

\* C6: a call that is not given a history starts from an empty one, and
\* every checkpoint it writes holds the entries of its own epochs only.
C6_FreshHistoryPerCall ==
    /\ (cv.active /\ cv.loss = "cv_default") =>
          /\ cv.len_in = 0
          /\ \A j \in 1..Len(ckpt_log) :
                Len(ckpt_log[j].rec.loss.mean)
                = ckpt_log[j].rec.epoch - cv.start_epoches + 1
    /\ (tm.active /\ tm.loss = "tm_default") => tm.loss_in = EmptyTM

\* C7 as stated: every checkpoint record has exactly the fields epoch,
\* model_state, optimizer_state, loss, best_loss.
C7_SpecFieldNames ==
    \A q \in DOMAIN files :
        DOMAIN files[q] = {"epoch", "model_state", "optimizer_state", "loss", "best_loss"}

\* C7: every checkpoint record written by save_checkpoints has exactly the
\* fields epoch, model_state_dict, optimizer_state_dict, loss, best_loss.
C7_CheckpointFieldNames ==
    /\ \A q \in DOMAIN files :
          DOMAIN files[q]
          = {"epoch", "model_state_dict", "optimizer_state_dict", "loss", "best_loss"}
    /\ \A j \in 1..Len(ckpt_log) :
          DOMAIN ckpt_log[j].rec
          = {"epoch", "model_state_dict", "optimizer_state_dict", "loss", "best_loss"}

\* C7 witness: both checkpoint files of a model name have been written
C7_Witness ==
    \E m \in Names : {BestPath(m), LatestPath(m)} \subseteq DOMAIN files

ValCalls(p) ==
    SelectSeq(p.calls, LAMBDA c : c.phase = "val")

ValRan(p) ==
    p.ran /\ ValCalls(p) # <<>>

OpCount(cs, op) ==
    Len(SelectSeq(cs, LAMBDA c : c.op = op))

\* C8 as stated: the val pass invokes neither optimizer.step nor
\* optimizer.zero_grad, and leaves the optimizer and the accumulated
\* gradients as they were before the pass.
C8_ValPassClearsNothing ==
    ValRan(last_pass) =>
        /\ OpCount(ValCalls(last_pass), "step") = 0
        /\ OpCount(ValCalls(last_pass), "zero_grad") = 0
        /\ last_pass.after.opt = last_pass.val_before.opt
        /\ last_pass.after.grads = last_pass.val_before.grads

\* C8: the val pass invokes neither backward nor optimizer.step, so the
\* parameters and the optimizer state are the same before and after it; it
\* invokes optimizer.zero_grad once per validation batch, which leaves the
\* accumulated gradients cleared.
C8_ValPassNeverSteps ==
    ValRan(last_pass) =>
        /\ OpCount(ValCalls(last_pass), "step") = 0
        /\ OpCount(ValCalls(last_pass), "backward") = 0
        /\ last_pass.after.opt = last_pass.val_before.opt
        /\ last_pass.after.params = last_pass.val_before.params
        /\ OpCount(ValCalls(last_pass), "zero_grad") = Len(last_pass.dloader.val)
        /\ Len(last_pass.dloader.val) > 0 => last_pass.after.grads = "cleared"

\* C8 witness: a completed pass with two validation batches, entered with
\* the gradients of the last train batch and left with cleared gradients
C8_Witness ==
    /\ ValRan(last_pass)
    /\ last_pass.raised = "none"
    /\ Len(last_pass.dloader.val) = 2
    /\ last_pass.val_before.grads = "set"
    /\ last_pass.after.grads = "cleared"
    /\ last_pass.after.opt = last_pass.val_before.opt

BestNotAboveLatest(m) ==
    ({BestPath(m), LatestPath(m)} \subseteq DOMAIN files
       /\ files[LatestPath(m)].epoch >= files[BestPath(m)].epoch)
    => RLeq(files[BestPath(m)].best_loss, files[LatestPath(m)].best_loss)

\* C9 as stated: whatever start epoch, history and best_loss the callers
\* choose, when both files exist and the "latest" epoch is the same or later,
\* the "best" file's best_loss is <= the "latest" file's best_loss.
C9_AnyCaller ==
    \A m \in Names : BestNotAboveLatest(m)

\* C9: as long as every cross_validate call is given the best_loss stored in
\* the existing "latest" checkpoint (the default +inf when there is none),
\* when both files exist and the "latest" epoch is the same or later, the
\* "best" file's best_loss is <= the "latest" file's best_loss.
C9_ResumedCaller ==
    resumed => \A m \in Names : BestNotAboveLatest(m)

\* C9 witness: the second of two resumed calls restarted at an earlier epoch
\* and has just written a "best" checkpoint below the older "latest" one
C9_Witness ==
    /\ resumed
    /\ ncalls = 2
    /\ \E m \in Names :
          /\ {BestPath(m), LatestPath(m)} \subseteq DOMAIN files
          /\ files[LatestPath(m)].epoch >= files[BestPath(m)].epoch
          /\ RLess(files[BestPath(m)].best_loss, files[LatestPath(m)].best_loss)

\* C10 as stated: a pass over an empty feed raises nothing and returns its
\* two mean losses.
C10_EmptyFeedReturns ==
    (last_pass.ran /\ ~NonEmptyFeeds(last_pass.dloader)) =>
        last_pass.raised = "none" /\ Len(last_pass.loss) = Len(Phases)

\* C10: a pass over an empty feed raises ZeroDivisionError at the mean-loss
\* division and returns nothing; a train_model epoch on such feeds ends the
\* call with that error before the append and the best-loss comparison, so
\* the history and best loss are unchanged and no checkpoint is requested.
C10_EmptyFeedRaises ==
    /\ (last_pass.ran /\ ~NonEmptyFeeds(last_pass.dloader)) =>
          last_pass.raised = "ZeroDivisionError" /\ Len(last_pass.loss) < Len(Phases)
    /\ \A i \in DOMAIN tm_calls :
          LET c == tm_calls[i]
          IN  (~NonEmptyFeeds(c.dloader) /\ c.epoches > 0) =>
                 /\ c.raised = "ZeroDivisionError"
                 /\ c.loss_out = c.loss_in
                 /\ c.best_out = c.best_in
                 /\ c.writes = <<>>

\* C10 witness: a train_model call whose val feed is empty ended with
\* ZeroDivisionError after its train pass
C10_Witness ==
    /\ last_pass.ran
    /\ last_pass.dloader.train # <<>>
    /\ last_pass.dloader.val = <<>>
    /\ last_pass.raised = "ZeroDivisionError"
    /\ \E i \in DOMAIN tm_calls :
          tm_calls[i].dloader = last_pass.dloader /\ tm_calls[i].raised = "ZeroDivisionError"

\* C11: when the pass function raises in a fold of epoch e of cross_validate,
\* the call ends there with that exception (no retry, no further fold or
\* epoch); no checkpoint of this call carries epoch e, the history has gained
\* one entry per completed epoch and none for e, and no file is touched.  If
\* the call had completed an epoch, the "latest" file is the last write of the
\* call, carries epoch e - 1 and stores the history as it is now, so a call
\* started at that epoch + 1 on this history starts exactly at e; otherwise
\* the call has written nothing.
C11_PassFailurePropagates ==
    [][(pc = "cv_fold" /\ cv.fold < cv.n_splits /\ exc' # "none") =>
          /\ pc' = "idle"
          /\ ~cv'.active
          /\ exc' = last_pass'.raised
          /\ files' = files
          /\ ckpt_log' = ckpt_log
          /\ hist' = hist
          /\ \A j \in 1..Len(ckpt_log') : ckpt_log'[j].rec.epoch # cv.e
          /\ Len(hist'[cv.loss].mean) = cv.len_in + (cv.e - cv.start_epoches)
          /\ Len(hist'[cv.loss].std) = cv.len_in + (cv.e - cv.start_epoches)
          /\ IF cv.e > cv.start_epoches
             THEN /\ LatestPath(cv.prefix) \in DOMAIN files'
                  /\ files'[LatestPath(cv.prefix)] = LastOf(ckpt_log').rec
                  /\ files'[LatestPath(cv.prefix)].epoch + 1 = cv.e
                  /\ files'[LatestPath(cv.prefix)].loss = hist'[cv.loss]
             ELSE ckpt_log' = <<>>]_vars

\* C11 witness: a call ended with the exception of its pass function after
\* a completed epoch; the model has moved on from the snapshot in the
\* "latest" checkpoint, which the call wrote last
C11_Witness ==
    /\ pc = "idle"
    /\ exc = "RuntimeError"
    /\ last_pass.ran
    /\ last_pass.raised = "RuntimeError"
    /\ ckpt_log # <<>>
    /\ IsLatestWrite(LastOf(ckpt_log))
    /\ \E m \in Names :
          /\ LatestPath(m) \in DOMAIN files
          /\ files[LatestPath(m)] = LastOf(ckpt_log).rec
          /\ files[LatestPath(m)].model_state_dict < env.params

\* a step of the fold loop of cross_validate is due
FoldDue ==
    pc = "cv_fold" /\ cv.fold < cv.n_splits

\* C12: in every epoch of cross_validate the fold counter starts at 0 with an
\* empty fold_loss; each step of the fold loop invokes the pass function once,
\* on dloader[fold] and on the model and optimizer as the previous pass left
\* them, appends the last element of its result (the validation loss) and
\* moves to fold + 1; nothing else touches the model or the optimizer, and
\* the history and the checkpoints change only once all n_splits folds of the
\* epoch have been collected.
C12_OncePerFoldInOrder ==
    [][/\ FoldDue =>
             /\ last_pass'.ran
             /\ last_pass'.before = env
             /\ last_pass'.dloader = cv.dloader[cv.fold]
             /\ env' = last_pass'.after
             /\ files' = files /\ hist' = hist /\ ckpt_log' = ckpt_log
             /\ exc' = "none" =>
                   /\ pc' = "cv_fold"
                   /\ cv'.e = cv.e
                   /\ cv'.fold = cv.fold + 1
                   /\ Len(last_pass'.loss) = Len(Phases)
                   /\ cv'.fold_loss = Append(cv.fold_loss, last_pass'.loss[2])
       /\ ~FoldDue => (env' = env /\ last_pass' = last_pass)
       /\ (pc = "cv_epoch" /\ pc' = "cv_fold") => (cv'.fold = 0 /\ cv'.fold_loss = <<>>)
       /\ (pc # "idle" /\ (hist' # hist \/ ckpt_log' # ckpt_log \/ files' # files)) =>
             (cv.fold = cv.n_splits /\ Len(cv.fold_loss) = cv.n_splits)]_vars

\* C12 witness: the last fold of a second epoch has just been collected; the
\* pass ran on that fold's feeds and on a model trained by the earlier passes
C12_Witness ==
    /\ pc = "cv_fold"
    /\ cv.fold = cv.n_splits
    /\ cv.e > cv.start_epoches
    /\ Len(cv.fold_loss) = cv.n_splits
    /\ last_pass.dloader = cv.dloader[cv.n_splits - 1]
    /\ last_pass.dloader # cv.dloader[0]
    /\ last_pass.before.params > 0
    /\ LastOf(cv.fold_loss) = last_pass.loss[2]

RECURSIVE Repeat(_, _)
Repeat(ops, n) ==
    IF n = 0 THEN <<>> ELSE ops \o Repeat(ops, n - 1)

\* the collaborator invocations of a train pass over n batches
TrainOps(n) ==
    <<Call("train", "train()", TRUE)>>
    \o Repeat(<<Call("train", "zero_grad", TRUE), Call("train", "forward", TRUE),
                Call("train", "backward", TRUE), Call("train", "step", TRUE)>>, n)

\* the collaborator invocations of a val pass over n batches
ValOps(n) ==
    <<Call("val", "eval()", TRUE)>>
    \o Repeat(<<Call("val", "zero_grad", TRUE), Call("val", "forward", FALSE)>>, n)

\* the loss of a phase as line 208 computes it from the batches the pass saw
PhaseLoss(p, ph) ==
    RDivInt(WeightedLoss(PhaseBatches(p, ph)), Len(p.dloader[ph]))

\* the pass p ran the train pass and then the val pass and returned the pair
\* of their losses
TwoPasses(p) ==
    /\ p.raised = "none"
    /\ p.calls = TrainOps(Len(p.dloader.train)) \o ValOps(Len(p.dloader.val))
    /\ p.after.mode = "eval"
    /\ p.after.params = p.before.params + Len(p.dloader.train)
    /\ p.after.opt = p.before.opt + Len(p.dloader.train)
    /\ p.loss = <<PhaseLoss(p, "train"), PhaseLoss(p, "val")>>

RECURSIVE SumOf(_)
SumOf(xs) ==
    IF xs = <<>> THEN 0 ELSE Head(xs)[1] + SumOf(Tail(xs))

RECURSIVE SumOfSquares(_)
SumOfSquares(xs) ==
    IF xs = <<>> THEN 0 ELSE Head(xs)[1] * Head(xs)[1] + SumOfSquares(Tail(xs))

OneToFive ==
    <<RInt(1), RInt(2), RInt(3), RInt(4), RInt(5)>>

\* C14: the aggregate cross_validate appends for an epoch is the arithmetic
\* mean S / K of the K fold losses and the square of their population
\* standard deviation, (K * Q - S * S) / K^2 with S their sum and Q the sum
\* of their squares; for the fold losses 1, 2, 3, 4, 5 the appended mean is 3
\* and the appended std squared is 2.
C14_MeanAndPopulationStd ==
    pc = "cv_latest" =>
        LET xs == cv.fold_loss
            K  == cv.n_splits
            S  == SumOf(xs)
            Q  == SumOfSquares(xs)
            h  == hist[cv.loss]
        IN  /\ Len(xs) = K
            /\ \A i \in 1..K : xs[i][2] = 1
            /\ LastOf(h.mean) = Rat(S, K)
            /\ LastOf(h.std) = Rat(K * Q - S * S, K * K)
            /\ xs = OneToFive => (LastOf(h.mean) = RInt(3) /\ LastOf(h.std) = RInt(2))

\* C14 witness: an epoch of five folds with the fold losses 1, 2, 3, 4, 5
\* has appended the mean 3 and the std squared 2
C14_Witness ==
    /\ pc = "cv_latest"
    /\ cv.n_splits = 5
    /\ cv.fold_loss = OneToFive
    /\ LastOf(hist[cv.loss].mean) = RInt(3)
    /\ LastOf(hist[cv.loss].std) = RInt(2)

\* the checkpoint files of one model name in one directory
FilesOf(fs, root_path, model_name) ==
    {q \in DOMAIN fs : q[1] = root_path /\ q[2] = model_name}

OtherSuffix(suffix) ==
    IF suffix = "latest" THEN "best" ELSE "latest"

\* C15: a call of save_checkpoints writes exactly one file; its path is made
\* of root_path, model_name and suffix only; the file at that path holds the
\* new record afterwards and every other file is as before, in particular
\* the file of the same name with the other suffix; with the suffixes
\* "latest" and "best" there are at most two files per directory and model
\* name, however many writes were made.
C15_OneFilePerSuffix ==
    [][ncalls' = ncalls + 1 =>
          /\ exc' = "none"
          /\ Len(ckpt_log') = 1
          /\ LET w == ckpt_log'[1]
                 other == SavePath(w.path[1], w.path[2], OtherSuffix(w.path[3]))
             IN  /\ w.path \in StoreRoots \X StoreNames \X {"latest", "best"}
                 /\ DOMAIN files' = DOMAIN files \cup {w.path}
                 /\ files'[w.path] = w.rec
                 /\ \A q \in DOMAIN files \ {w.path} : files'[q] = files[q]
                 /\ other # w.path
                 /\ other \in DOMAIN files' <=> other \in DOMAIN files
          /\ \A r \in StoreRoots, m \in StoreNames :
                Cardinality(FilesOf(files', r, m)) <= 2]_vars

\* C15 witness: three writes have left exactly the two files of one model
\* name, so one path was written twice and holds a single record; the last
\* write went to the "latest" file and the "best" file still holds epoch 0
C15_Witness ==
    /\ ncalls = 3
    /\ DOMAIN files = {SavePath(".", "Net", "latest"), SavePath(".", "Net", "best")}
    /\ files[SavePath(".", "Net", "best")].epoch = 0
    /\ files[SavePath(".", "Net", "latest")].epoch = 1
    /\ ckpt_log[1].path = SavePath(".", "Net", "latest")

RECURSIVE FeedSize(_)
FeedSize(feed) ==
    IF feed = <<>> THEN 0 ELSE Head(feed) + FeedSize(Tail(feed))

\* folds is a K-fold split of the indices 0 .. n - 1: the validation sets
\* are disjoint and cover the indices, each fold trains on the other indices
IsKFoldSplit(folds, n, K) ==
    /\ DOMAIN folds = 0..(K - 1)
    /\ UNION {folds[f].val_idx : f \in 0..(K - 1)} = 0..(n - 1)
    /\ \A f, g \in 0..(K - 1) : f # g => folds[f].val_idx \cap folds[g].val_idx = {}
    /\ \A f \in 0..(K - 1) : folds[f].train_idx = (0..(n - 1)) \ folds[f].val_idx

CallMeans ==
    Appended(hist[cv.loss].mean, cv.len_in)

\* C17: within a cross_validate call the best loss never increases; the
\* best_loss stored in a checkpoint written at epoch e is the least of the
\* best_loss argument and the mean fold losses of the call's epochs start..e,
\* whatever the history held before the call; a call given best_loss = +inf
\* writes a "best" checkpoint in its first epoch.
C17_BestIsRunningMinimum ==
    cv.active =>
        /\ cv.best_loss = MinUpTo(cv.best_in, CallMeans, Len(CallMeans))
        /\ RLeq(cv.best_loss, cv.best_in)
        /\ \A j \in 1..Len(ckpt_log) :
              /\ ckpt_log[j].rec.best_loss
                 = MinUpTo(cv.best_in, CallMeans, ckpt_log[j].rec.epoch - cv.start_epoches + 1)
              /\ \A i \in 1..j : RLeq(ckpt_log[j].rec.best_loss, ckpt_log[i].rec.best_loss)
        /\ (cv.best_in = Inf /\ (cv.e > cv.start_epoches \/ pc = "cv_latest")) =>
              /\ ckpt_log # <<>>
              /\ IsBestWrite(ckpt_log[1])
              /\ ckpt_log[1].rec.epoch = cv.start_epoches
              /\ ckpt_log[1].rec.best_loss = CallMeans[1]

\* C17 witness: a call given a non-empty history and best_loss = +inf has
\* written a "best" checkpoint in its first epoch although the history holds
\* a lower mean from before the call
C17_Witness ==
    /\ cv.active
    /\ cv.len_in > 0
    /\ cv.best_in = Inf
    /\ ckpt_log # <<>>
    /\ IsBestWrite(ckpt_log[1])
    /\ ckpt_log[1].rec.epoch = cv.start_epoches
    /\ \E i \in 1..cv.len_in : RLess(hist[cv.loss].mean[i], ckpt_log[1].rec.best_loss)

\* xs is ys with at most one entry appended
ExtendsByAtMostOne(xs, ys) ==
    /\ Len(xs) \in {Len(ys), Len(ys) + 1}
    /\ SubSeq(xs, 1, Len(ys)) = ys

\* C18: during a cross_validate call every step leaves the earlier entries
\* of loss["mean"] and loss["std"] as they were and keeps the two equally
\* long; they grow, by one entry each, exactly in the step that completes
\* an epoch's folds; no other history object changes; the history stored in
\* a checkpoint written at epoch e has (length at the start of the call) +
\* (e - start_epoches + 1) entries in both sequences; a call with
\* epoches = 0 returns at once, having run no pass, written no checkpoint
\* and left the history as it was.
C18_HistoryAppendOnly ==
    [][/\ pc # "idle" =>
             /\ ExtendsByAtMostOne(hist'[cv.loss].mean, hist[cv.loss].mean)
             /\ ExtendsByAtMostOne(hist'[cv.loss].std, hist[cv.loss].std)
             /\ Len(hist'[cv.loss].mean) = Len(hist'[cv.loss].std)
             /\ Len(hist'[cv.loss].mean) = Len(hist[cv.loss].mean) + 1
                <=> (pc = "cv_fold" /\ cv.fold = cv.n_splits)
             /\ \A r \in DOMAIN hist \ {cv.loss} : hist'[r] = hist[r]
             /\ \A j \in 1..Len(ckpt_log') :
                   /\ Len(ckpt_log'[j].rec.loss.mean)
                      = cv.len_in + (ckpt_log'[j].rec.epoch - cv.start_epoches + 1)
                   /\ Len(ckpt_log'[j].rec.loss.std) = Len(ckpt_log'[j].rec.loss.mean)
       /\ (pc = "idle" /\ pc' = "cv_epoch" /\ cv'.epoches = 0) =>
             /\ env' = env /\ files' = files /\ last_pass' = last_pass
             /\ ckpt_log' = <<>>
             /\ Len(hist'[cv'.loss].mean) = cv'.len_in
       /\ (pc = "cv_epoch" /\ cv.epoches = 0) =>
             /\ pc' = "idle"
             /\ env' = env /\ files' = files /\ last_pass' = last_pass
             /\ hist' = hist
             /\ ckpt_log' = <<>>]_vars

\* C18 witness: a call that was given a history with entries has completed
\* two epochs; its last checkpoint stores the history, two entries longer
C18_Witness ==
    /\ cv.active
    /\ pc = "cv_epoch"
    /\ cv.len_in > 0
    /\ cv.e = cv.start_epoches + 2
    /\ Len(hist[cv.loss].mean) = cv.len_in + 2
    /\ Len(hist[cv.loss].std) = cv.len_in + 2
    /\ LastOf(ckpt_log).rec.loss = hist[cv.loss]

HasWrite(log, Kind(_)) ==
    \E j \in 1..Len(log) : Kind(log[j])

\* after a completed epoch of a call that has written a "best" checkpoint,
\* the "best" file is not ahead of the "latest" file and both store the same
\* best_loss
BestAgreesAfterEpoch ==
    (cv.active /\ pc = "cv_epoch" /\ HasWrite(ckpt_log, IsBestWrite)) =>
        /\ {BestPath(cv.prefix), LatestPath(cv.prefix)} \subseteq DOMAIN files
        /\ files[BestPath(cv.prefix)].epoch <= files[LatestPath(cv.prefix)].epoch
        /\ files[BestPath(cv.prefix)].best_loss = files[LatestPath(cv.prefix)].best_loss

\* a "best" and a "latest" checkpoint written in the same epoch hold the
\* same record
SameEpochSameRecord ==
    \A j \in 1..(Len(ckpt_log) - 1) :
        IsBestWrite(ckpt_log[j]) =>
            /\ IsLatestWrite(ckpt_log[j + 1])
            /\ ckpt_log[j + 1].rec = ckpt_log[j].rec

BestAhead(m) ==
    /\ {BestPath(m), LatestPath(m)} \subseteq DOMAIN files
    /\ files[BestPath(m)].epoch > files[LatestPath(m)].epoch

\* C19 as stated: after a completed epoch of a call that wrote a "best"
\* checkpoint the two files agree as above; same-epoch writes hold the same
\* record; and in every state where the "best" file is ahead of the "latest"
\* file the run is between the two writes of one epoch and the "best" epoch
\* is the "latest" epoch + 1.
C19_AheadOnlyBetweenWrites ==
    /\ BestAgreesAfterEpoch
    /\ SameEpochSameRecord
    /\ \A m \in Names :
          BestAhead(m) =>
             /\ pc = "cv_latest"
             /\ files[BestPath(m)].epoch = files[LatestPath(m)].epoch + 1

\* C19: after a completed epoch of a call that wrote a "best" checkpoint
\* the two files agree as above; same-epoch writes hold the same record; and
\* in every state of a call that has written both files itself, if the
\* "best" file is ahead of the "latest" file then the run is between the two
\* writes of one epoch and the "best" epoch is the "latest" epoch + 1; a call
\* that has written a "best" but no "latest" checkpoint yet is between the
\* two writes of its first epoch.
C19_AheadOnlyBetweenWritesOfACall ==
    /\ BestAgreesAfterEpoch
    /\ SameEpochSameRecord
    /\ (cv.active /\ HasWrite(ckpt_log, IsBestWrite)) =>
          IF HasWrite(ckpt_log, IsLatestWrite)
          THEN BestAhead(cv.prefix) =>
                  /\ pc = "cv_latest"
                  /\ files[BestPath(cv.prefix)].epoch
                     = files[LatestPath(cv.prefix)].epoch + 1
          ELSE /\ pc = "cv_latest"
               /\ Len(ckpt_log) = 1
               /\ cv.e = cv.start_epoches

\* C19 witness: the second epoch of a call has written its "best"
\* checkpoint and not yet its "latest" one: the "best" file is one epoch
\* ahead of the "latest" file, which the call wrote in its first epoch
C19_Witness ==
    /\ cv.active
    /\ pc = "cv_latest"
    /\ cv.e = cv.start_epoches + 1
    /\ IsBestWrite(LastOf(ckpt_log))
    /\ HasWrite(ckpt_log, IsLatestWrite)
    /\ files[BestPath(cv.prefix)].epoch = files[LatestPath(cv.prefix)].epoch + 1
    /\ files[BestPath(cv.prefix)].model_state_dict
          > files[LatestPath(cv.prefix)].model_state_dict

====
